---- MODULE Spec2Model ----
(***************************************************************************)
(* The table models of calibre-plugin/models.py: LibbyLoansModel,          *)
(* LibbyHoldsModel, LibbyCardsModel and LibbyMagazinesModel.  One model    *)
(* object is followed; cls is its class, fixed at construction.  The       *)
(* object's fields are the variables; each method is one action.           *)
(*                                                                         *)
(* Strings that the code transforms (titles) are sequences of one-letter   *)
(* strings, so that icu_lower, strip, endswith and the f-strings are       *)
(* computed.  Dates are integers ordered as the ISO strings are.           *)
(***************************************************************************)
EXTENDS Integers, Sequences, FiniteSets, TLC

VARIABLES cls, PREFS, db, _cards, _libraries, _rows, filtered_rows,
          filter_hide, _loans, err, lastOp, synced, edited, toggle, snap,
          ret, removed

vars == <<cls, PREFS, db, _cards, _libraries, _rows, filtered_rows,
          filter_hide, _loans, err, lastOp, synced, edited, toggle, snap,
          ret, removed>>

\* Longest list handed to sync / sync_subscriptions.
MaxRows == 2
\* Most books in the calibre library.
MaxBooks == 2

\* h.get("estimatedWaitDays", 9999)
DefaultWaitDays == 9999

Range(s) == {s[i] : i \in 1..Len(s)}

Injective(s) == \A i, j \in 1..Len(s) : i # j => s[i] # s[j]

\* the lists of at most n distinct members of S
SeqsUpTo(S, n) == {s \in UNION {[1..k -> S] : k \in 0..n} : Injective(s)}

(***************************************************************************)
(* Text helpers                                                            *)
(***************************************************************************)
LowerChar(c) ==
    CASE c = "A" -> "a"
      [] c = "B" -> "b"
      [] c = "C" -> "c"
      [] c = "M" -> "m"
      [] c = "N" -> "n"
      [] OTHER -> c

\* calibre.utils.icu.lower
icu_lower(s) == [i \in 1..Len(s) |-> LowerChar(s[i])]

RECURSIVE lstrip(_)
lstrip(s) == IF s # <<>> /\ Head(s) = " " THEN lstrip(Tail(s)) ELSE s

RECURSIVE rstrip(_)
rstrip(s) ==
    IF s # <<>> /\ s[Len(s)] = " " THEN rstrip(SubSeq(s, 1, Len(s) - 1)) ELSE s

\* str.strip()
strip(s) == lstrip(rstrip(s))

\* str.endswith(suffix)
endswith(s, suffix) ==
    /\ Len(suffix) <= Len(s)
    /\ SubSeq(s, Len(s) - Len(suffix) + 1, Len(s)) = suffix

\* get_media_title(loan, for_sorting, include_subtitle)
get_media_title(loan, for_sorting, include_subtitle) ==
    LET title0 == IF for_sorting /\ loan.sortTitle # <<>>
                  THEN loan.sortTitle ELSE loan.title
        title1 == IF /\ include_subtitle
                     /\ loan.subtitle # <<>>
                     /\ ~endswith(title0, loan.subtitle)
                  THEN title0 \o <<":", " ">> \o loan.subtitle
                  ELSE title0
    IN  IF loan.type = "magazine" /\ loan.edition # <<>>
        THEN IF ~for_sorting
             THEN title1 \o <<" ", "-", " ">> \o loan.edition
             ELSE title1 \o <<"|">> \o <<loan.id>>
        ELSE title1

(***************************************************************************)
(* sorted(iterable, key=..., reverse=...): keys are tuples of integers,    *)
(* compared lexicographically; the sort is stable, also with reverse=True. *)
(***************************************************************************)
RECURSIVE TupleLess(_, _)
TupleLess(a, b) ==
    IF a = <<>> \/ b = <<>> THEN a = <<>> /\ b # <<>>
    ELSE IF Head(a) # Head(b) THEN Head(a) < Head(b)
    ELSE TupleLess(Tail(a), Tail(b))

\* x goes after every y already placed that is not strictly behind it
GoesBefore(ky, kx, reverse) ==
    IF reverse THEN ~TupleLess(ky, kx) ELSE ~TupleLess(kx, ky)

RECURSIVE sorted_idx(_, _, _)
sorted_idx(keys, n, reverse) ==
    IF n = 0 THEN <<>>
    ELSE LET done == sorted_idx(keys, n - 1, reverse)
             p == Cardinality({j \in 1..Len(done) :
                                 GoesBefore(keys[done[j]], keys[n], reverse)})
         IN  SubSeq(done, 1, p) \o <<n>> \o SubSeq(done, p + 1, Len(done))

sorted(xs, keys, reverse) ==
    LET idx == sorted_idx(keys, Len(xs), reverse)
    IN  [i \in 1..Len(xs) |-> xs[idx[i]]]

(***************************************************************************)
(* Records.  A field the code reads with .get(k) and a truth test is the   *)
(* empty sequence when absent; `missing` names the keys the record lacks   *)
(* among those the code subscripts (r["k"]).                               *)
(***************************************************************************)
Loan(id, title, subtitle, edition, type, checkoutDate, dlEbook, dlMagazine, loan_format, isbn, asin, missing) ==
    [id |-> id, title |-> title, subtitle |-> subtitle, sortTitle |-> <<>>,
     edition |-> edition, type |-> type, checkoutDate |-> checkoutDate,
     dlEbook |-> dlEbook, dlMagazine |-> dlMagazine, loan_format |-> loan_format,
     isbn |-> isbn, asin |-> asin, missing |-> missing]

Hold(id, title, type, isAvailable, estimatedWaitDays, placedDate, dlEbook, dlMagazine, loan_format, missing) ==
    [id |-> id, title |-> title, subtitle |-> <<>>, sortTitle |-> <<>>,
     edition |-> <<>>, type |-> type, isAvailable |-> isAvailable,
     estimatedWaitDays |-> estimatedWaitDays, placedDate |-> placedDate,
     dlEbook |-> dlEbook, dlMagazine |-> dlMagazine, loan_format |-> loan_format,
     missing |-> missing]

Card(cardId, createDate, missing) ==
    [cardId |-> cardId, createDate |-> createDate, missing |-> missing]

Subscription(id, title, subtitle, estimatedReleaseDate, is_borrowed, missing) ==
    [id |-> id, title |-> title, subtitle |-> subtitle, sortTitle |-> <<>>,
     edition |-> <<>>, type |-> "magazine",
     estimatedReleaseDate |-> estimatedReleaseDate,
     is_borrowed |-> is_borrowed, missing |-> missing]

Book(book_id, title, formats, isbn, amazon, asin) ==
    [book_id |-> book_id, title |-> title, formats |-> formats,
     identifiers |-> [isbn |-> isbn, amazon |-> amazon, asin |-> asin]]

Has(r, k) == k \notin r.missing

\* The loans a sync may deliver: complete ones ...
LoanUniverse ==
    { Loan("1", <<"A", "b">>, <<"c">>, <<>>, "ebook", 1,
           TRUE, FALSE, "ebook-epub-adobe", "", "", {}),
      Loan("2", <<"A", "b", " ">>, <<>>, <<>>, "ebook", 2,
           TRUE, FALSE, "ebook-epub-adobe", "i", "", {}),
      Loan("3", <<"M">>, <<>>, <<"e">>, "magazine", 2,
           FALSE, TRUE, "magazine-overdrive", "", "a", {}),
      Loan("4", <<"A", "b", ":", " ", "c">>, <<"c">>, <<>>, "ebook", 3,
           TRUE, FALSE, "ValueError", "", "", {}) }

\* ... and one without its checkoutDate.
LoanLacking ==
    { Loan("6", <<"B">>, <<>>, <<>>, "ebook", 0,
           TRUE, FALSE, "ebook-epub-adobe", "", "", {"checkoutDate"}) }

HoldUniverse ==
    { Hold("1", <<"A", "b">>, "ebook", TRUE, 5, 1,
           TRUE, FALSE, "ebook-epub-adobe", {}),
      Hold("2", <<"B">>, "ebook", FALSE, 5, 2,
           TRUE, FALSE, "ebook-epub-adobe", {}),
      Hold("3", <<"B">>, "ebook", FALSE, 10, 3,
           TRUE, FALSE, "ebook-epub-adobe", {}),
      Hold("4", <<"M">>, "magazine", FALSE, 0, 2,
           FALSE, TRUE, "magazine-overdrive", {"estimatedWaitDays"}),
      Hold("5", <<"B">>, "ebook", TRUE, 5, 3,
           TRUE, FALSE, "ValueError", {}) }

HoldLacking ==
    { Hold("7", <<"B">>, "ebook", FALSE, 5, 2,
           TRUE, FALSE, "ebook-epub-adobe", {"isAvailable"}) }

\* The hold the view hands to setData: hold 1 after its delivery was delayed
\* (no longer available).
SetDataHolds ==
    { Hold("1", <<"A", "b">>, "ebook", FALSE, 7, 1,
           TRUE, FALSE, "ebook-epub-adobe", {}) }

CardUniverse == { Card("1", 2, {}), Card("2", 1, {}), Card("3", 2, {}) }

CardLacking == { Card("4", 0, {"createDate"}) }

SubscriptionUniverse ==
    { Subscription("3", <<"M">>, <<>>, 2, FALSE, {}),
      Subscription("8", <<"M", " ">>, <<"c">>, 1, FALSE, {}),
      Subscription("9", <<"N">>, <<>>, 2, TRUE, {}) }

SubscriptionLacking ==
    { Subscription("7", <<"M">>, <<>>, 0, FALSE, {"estimatedReleaseDate"}) }

\* The loans a magazines model is synced with.
MagazineLoanLists ==
    LET l1 == Loan("1", <<"A", "b">>, <<"c">>, <<>>, "ebook", 1,
                   TRUE, FALSE, "ebook-epub-adobe", "", "", {})
        l3 == Loan("3", <<"M">>, <<>>, <<"e">>, "magazine", 2,
                   FALSE, TRUE, "magazine-overdrive", "", "", {})
    IN  { <<>>, <<l1, l3>> }

\* The calibre library seen by a loans model ...
LoanBooks ==
    { Book(1, <<"A", "B">>, {}, "", "", "a"),
      Book(2, <<"a", "b">>, {"EPUB"}, "", "", ""),
      Book(3, <<"A", "b", ":", " ", "C">>, {"EPUB"}, "i", "a", "") }

\* ... and by a magazines model.
MagazineBooks ==
    { Book(1, <<"M">>, {}, "", "", ""),
      Book(2, <<"m", " ", ":", " ", "C">>, {"EPUB"}, "", "", "") }

\* book_col_map: book ids are distinct; the sequence is the iteration order.
Libraries(books) == SeqsUpTo(books, MaxBooks)

(***************************************************************************)
(* LibbyClient and magazine_download_utils: what they answer for a record  *)
(* is carried by the record.                                               *)
(***************************************************************************)
is_downloadable_ebook_loan(loan) == loan.dlEbook

is_downloadable_magazine_loan(loan) == loan.dlMagazine

\* a format id, or "ValueError" when the call raises
get_loan_format(loan, prefer_open_format) == loan.loan_format

extract_isbn(loan, loan_format) == loan.isbn

extract_asin(loan) == loan.asin

(***************************************************************************)
(* The model object.  `self` is the record of its fields; a method is an   *)
(* operator from the object before the call to the object after it, with   *)
(* err the exception the call ended with ("none" when it returned).        *)
(***************************************************************************)
self == [_cards |-> _cards, _libraries |-> _libraries, _rows |-> _rows,
         filtered_rows |-> filtered_rows, filter_hide |-> filter_hide,
         _loans |-> _loans, err |-> err]

\* LibbyModel.sync
LibbyModel_sync(o, synced_state) ==
    [o EXCEPT !._cards = synced_state.cards,
              !._libraries = synced_state.libraries]

\* LibbyModel.removeRows: filtered_rows[:row] + filtered_rows[row + count:]
\* (row is 0-based)
\* `return True`
LibbyModel_removeRows_return == "True"

\* a removeRows that takes the rows out of _rows too
LibbyModel_removeRows_raw(o, row, count) ==
    LET left == SubSeq(o.filtered_rows, 1, row)
                \o SubSeq(o.filtered_rows, row + count + 1, Len(o.filtered_rows))
    IN  [o EXCEPT !.filtered_rows = left,
                  !._rows = SelectSeq(o._rows, LAMBDA r : r \in Range(left)),
                  !.err = "none"]

LibbyModel_removeRows(o, row, count) ==
    [o EXCEPT !.filtered_rows =
                  SubSeq(o.filtered_rows, 1, row)
                  \o SubSeq(o.filtered_rows, row + count + 1, Len(o.filtered_rows)),
              !.err = "none"]

\* ------------------------------------------------------------ loans
\* a scan that compares the library title as it is written
RECURSIVE loan_book_in_library_case(_, _, _)
loan_book_in_library_case(loan, loan_format, i) ==
    IF i > Len(db) THEN FALSE
    ELSE LET title == db[i].title
             book_identifiers == db[i].identifiers
             loan_title1 == icu_lower(strip(get_media_title(loan, FALSE, FALSE)))
             loan_title2 == icu_lower(strip(get_media_title(loan, FALSE, TRUE)))
             loan_isbn == extract_isbn(loan, loan_format)
             loan_asin == extract_asin(loan)
             book_in_library ==
                 \/ title \in {loan_title1, loan_title2}
                 \/ (loan_isbn # "" /\ loan_isbn = book_identifiers.isbn)
                 \/ (loan_asin # "" /\ loan_asin = book_identifiers.amazon)
                 \/ (loan_asin # "" /\ loan_asin = book_identifiers.asin)
         IN  IF book_in_library
             THEN ~(PREFS.EXCLUDE_EMPTY_BOOKS /\ db[i].formats = {})
             ELSE loan_book_in_library_case(loan, loan_format, i + 1)

\* The scan of the library for one loan: book_in_library after the for loop
\* that starts at book i.
RECURSIVE loan_book_in_library(_, _, _)
loan_book_in_library(loan, loan_format, i) ==
    IF i > Len(db) THEN FALSE
    ELSE LET title == db[i].title
             book_identifiers == db[i].identifiers
             loan_title1 == icu_lower(strip(get_media_title(loan, FALSE, FALSE)))
             loan_title2 == icu_lower(strip(get_media_title(loan, FALSE, TRUE)))
             loan_isbn == extract_isbn(loan, loan_format)
             loan_asin == extract_asin(loan)
             book_in_library ==
                 \/ icu_lower(title) \in {loan_title1, loan_title2}
                 \/ (loan_isbn # "" /\ loan_isbn = book_identifiers.isbn)
                 \/ (loan_asin # "" /\ loan_asin = book_identifiers.amazon)
                 \/ (loan_asin # "" /\ loan_asin = book_identifiers.asin)
         IN  IF book_in_library
             THEN ~(PREFS.EXCLUDE_EMPTY_BOOKS /\ db[i].formats = {})
             ELSE loan_book_in_library(loan, loan_format, i + 1)

\* The body of the for loop of LibbyLoansModel.filter_rows: is the loan appended?
loan_appended(o, loan) ==
    IF ~(\/ (is_downloadable_ebook_loan(loan) /\ ~PREFS.HIDE_EBOOKS)
         \/ (is_downloadable_magazine_loan(loan) /\ ~PREFS.HIDE_MAGAZINES))
    THEN FALSE
    ELSE LET loan_format == get_loan_format(loan, PREFS.PREFER_OPEN_FORMATS)
         IN  IF loan_format = "ValueError" THEN FALSE
             ELSE IF ~o.filter_hide THEN TRUE
             ELSE ~loan_book_in_library(loan, loan_format, 1)

RECURSIVE loans_loop(_, _)
loans_loop(o, n) ==
    IF n = 0 THEN <<>>
    ELSE LET before == loans_loop(o, n - 1)
         IN  IF loan_appended(o, o._rows[n])
             THEN Append(before, o._rows[n]) ELSE before

\* LibbyLoansModel.filter_rows
LibbyLoansModel_filter_rows(o) ==
    [o EXCEPT !.filtered_rows = loans_loop(o, Len(o._rows)), !.err = "none"]

\* LibbyLoansModel.sync
LibbyLoansModel_sync(o, synced_state) ==
    LET o1 == LibbyModel_sync(o, synced_state)
        loans == synced_state.loans
    IN  IF \E i \in 1..Len(loans) : ~Has(loans[i], "checkoutDate")
        THEN [o1 EXCEPT !.err = "KeyError"]
        ELSE LibbyLoansModel_filter_rows(
                 [o1 EXCEPT !._rows =
                     sorted(loans,
                            [i \in 1..Len(loans) |-> <<loans[i].checkoutDate>>],
                            TRUE)])

\* a setter that runs filter_rows before it stores the new value
LibbyLoansModel_set_filter_late(o, value) ==
    IF value # o.filter_hide
    THEN [LibbyLoansModel_filter_rows(o) EXCEPT !.filter_hide = value]
    ELSE [o EXCEPT !.err = "none"]

\* LibbyLoansModel.set_filter_hide_books_already_in_library
LibbyLoansModel_set_filter(o, value) ==
    IF value # o.filter_hide
    THEN LibbyLoansModel_filter_rows([o EXCEPT !.filter_hide = value])
    ELSE [o EXCEPT !.err = "none"]

\* ------------------------------------------------------------ holds
\* a sort key whose wait is not negated
hold_key_wait_not_negated(h) ==
    << IF h.isAvailable THEN 1 ELSE 0,
       IF Has(h, "estimatedWaitDays") THEN h.estimatedWaitDays
                                      ELSE DefaultWaitDays,
       h.placedDate >>

hold_key(h) ==
    << IF h.isAvailable THEN 1 ELSE 0,
       -(IF Has(h, "estimatedWaitDays") THEN h.estimatedWaitDays
                                        ELSE DefaultWaitDays),
       h.placedDate >>

\* the list comprehension of LibbyHoldsModel.filter_rows
hold_downloadable(h) ==
    \/ (~PREFS.HIDE_EBOOKS /\ is_downloadable_ebook_loan(h))
    \/ (~PREFS.HIDE_MAGAZINES /\ is_downloadable_magazine_loan(h))

\* a test that has lost its `not`
hold_appended_no_not(o, hold) ==
    \/ (Has(hold, "isAvailable") /\ hold.isAvailable)
    \/ o.filter_hide

\* hold.get("isAvailable", False) or not self.filter_hide_unavailable_holds
hold_appended(o, hold) ==
    \/ (Has(hold, "isAvailable") /\ hold.isAvailable)
    \/ ~o.filter_hide

RECURSIVE holds_loop(_, _)
holds_loop(o, n) ==
    IF n = 0 THEN <<>>
    ELSE LET before == holds_loop(o, n - 1)
         IN  IF hold_downloadable(o._rows[n]) /\ hold_appended(o, o._rows[n])
             THEN Append(before, o._rows[n]) ELSE before

\* LibbyHoldsModel.filter_rows
LibbyHoldsModel_filter_rows(o) ==
    [o EXCEPT !.filtered_rows = holds_loop(o, Len(o._rows)), !.err = "none"]

\* LibbyHoldsModel.sync
LibbyHoldsModel_sync(o, synced_state) ==
    LET o1 == LibbyModel_sync(o, synced_state)
        holds == synced_state.holds
    IN  IF \E i \in 1..Len(holds) :
               ~Has(holds[i], "isAvailable") \/ ~Has(holds[i], "placedDate")
        THEN [o1 EXCEPT !.err = "KeyError"]
        ELSE LibbyHoldsModel_filter_rows(
                 [o1 EXCEPT !._rows =
                     sorted(holds, [i \in 1..Len(holds) |-> hold_key(holds[i])],
                            TRUE)])

\* LibbyHoldsModel.set_filter_hide_unavailable_holds
LibbyHoldsModel_set_filter(o, value) ==
    IF value # o.filter_hide
    THEN LibbyHoldsModel_filter_rows([o EXCEPT !.filter_hide = value])
    ELSE [o EXCEPT !.err = "none"]

\* LibbyHoldsModel.setData (row is 0-based)
\* `return True` under the role test; the method falls off its end otherwise
LibbyHoldsModel_setData_return(role) ==
    IF role = "EditRole" THEN "True" ELSE "None"

\* a setData that does not look at the role
LibbyHoldsModel_setData_any_role(o, row, hold, role) ==
    [o EXCEPT !.filtered_rows[row + 1] = hold, !.err = "none"]

LibbyHoldsModel_setData(o, row, hold, role) ==
    IF role = "EditRole"
    THEN [o EXCEPT !.filtered_rows[row + 1] = hold, !.err = "none"]
    ELSE [o EXCEPT !.err = "none"]

\* ------------------------------------------------------------ cards
\* LibbyCardsModel.filter_rows
LibbyCardsModel_filter_rows(o) ==
    IF \E i \in 1..Len(o._rows) : ~Has(o._rows[i], "createDate")
    THEN [o EXCEPT !.err = "KeyError"]
    ELSE [o EXCEPT !.filtered_rows =
                       sorted(o._rows,
                              [i \in 1..Len(o._rows) |-> <<o._rows[i].createDate>>],
                              FALSE),
                   !.err = "none"]

\* LibbyCardsModel.sync
LibbyCardsModel_sync(o, synced_state) ==
    LET o1 == LibbyModel_sync(o, synced_state)
    IN  LibbyCardsModel_filter_rows([o1 EXCEPT !._rows = o1._cards])

\* ------------------------------------------------------------ magazines
\* a scan without the break: the last book of the library decides
magazine_book_in_library_no_break(r, i) ==
    IF Len(db) = 0 THEN FALSE
    ELSE LET q1 == icu_lower(strip(get_media_title(r, FALSE, FALSE)))
             q2 == icu_lower(strip(get_media_title(r, FALSE, TRUE)))
             last == db[Len(db)]
         IN  /\ icu_lower(last.title) \in {q1, q2}
             /\ ((~PREFS.EXCLUDE_EMPTY_BOOKS) \/ last.formats # {})

\* book_in_library after the for loop over the library that starts at book i
RECURSIVE magazine_book_in_library(_, _)
magazine_book_in_library(r, i) ==
    IF i > Len(db) THEN FALSE
    ELSE LET q1 == icu_lower(strip(get_media_title(r, FALSE, FALSE)))
             q2 == icu_lower(strip(get_media_title(r, FALSE, TRUE)))
         IN  IF icu_lower(db[i].title) \notin {q1, q2}
             THEN magazine_book_in_library(r, i + 1)
             ELSE (~PREFS.EXCLUDE_EMPTY_BOOKS) \/ db[i].formats # {}

\* r["__is_borrowed"] = bool([l for l in self._loans if l["id"] == r["id"]])
is_borrowed(o, r) == \E i \in 1..Len(o._loans) : o._loans[i].id = r.id

flagged(o, r) == [r EXCEPT !.is_borrowed = is_borrowed(o, r)]

RECURSIVE magazines_loop(_, _, _)
magazines_loop(o, rs, n) ==
    IF n = 0 THEN <<>>
    ELSE LET before == magazines_loop(o, rs, n - 1)
             r == flagged(o, rs[n])
         IN  IF ~o.filter_hide THEN Append(before, r)
             ELSE IF ~magazine_book_in_library(r, 1) THEN Append(before, r)
             ELSE before

\* LibbyMagazinesModel.filter_rows.  The records are shared between _rows
\* and filtered_rows, so the flag it sets shows in both; filtered_rows is
\* emptied before sorted() is evaluated.
LibbyMagazinesModel_filter_rows(o) ==
    IF \E i \in 1..Len(o._rows) : ~Has(o._rows[i], "estimatedReleaseDate")
    THEN [o EXCEPT !.filtered_rows = <<>>, !.err = "KeyError"]
    ELSE LET rs == sorted(o._rows,
                          [i \in 1..Len(o._rows) |->
                              <<o._rows[i].estimatedReleaseDate>>],
                          TRUE)
         IN  [o EXCEPT !._rows = [i \in 1..Len(o._rows) |-> flagged(o, o._rows[i])],
                       !.filtered_rows = magazines_loop(o, rs, Len(rs)),
                       !.err = "none"]

\* a sync that does not keep the loans
LibbyMagazinesModel_sync_drops_loans(o, synced_state) ==
    LET o1 == LibbyModel_sync(o, synced_state)
    IN  LibbyMagazinesModel_filter_rows(
            [o1 EXCEPT !._rows = synced_state.subscriptions])

\* LibbyMagazinesModel.sync
LibbyMagazinesModel_sync(o, synced_state) ==
    LET o1 == LibbyModel_sync(o, synced_state)
    IN  LibbyMagazinesModel_filter_rows(
            [o1 EXCEPT !._loans = synced_state.loans,
                       !._rows = synced_state.subscriptions])

\* a sync_subscriptions that extends the list in place of replacing it
LibbyMagazinesModel_sync_subscriptions_extends(o, subscriptions) ==
    LibbyMagazinesModel_filter_rows([o EXCEPT !._rows = o._rows \o subscriptions])

\* LibbyMagazinesModel.sync_subscriptions
LibbyMagazinesModel_sync_subscriptions(o, subscriptions) ==
    LibbyMagazinesModel_filter_rows([o EXCEPT !._rows = subscriptions])

\* LibbyMagazinesModel.set_filter_hide_magazines_already_in_library
LibbyMagazinesModel_set_filter(o, value) ==
    IF value # o.filter_hide
    THEN LibbyMagazinesModel_filter_rows([o EXCEPT !.filter_hide = value])
    ELSE [o EXCEPT !.err = "none"]

(***************************************************************************)
(* The state machine                                                       *)
(***************************************************************************)
Classes == {"loans", "holds", "cards", "magazines"}

\* the method of the object's class (virtual dispatch)
filter_rows(o) ==
    CASE cls = "loans" -> LibbyLoansModel_filter_rows(o)
      [] cls = "holds" -> LibbyHoldsModel_filter_rows(o)
      [] cls = "cards" -> LibbyCardsModel_filter_rows(o)
      [] cls = "magazines" -> LibbyMagazinesModel_filter_rows(o)

sync(o, synced_state) ==
    CASE cls = "loans" -> LibbyLoansModel_sync(o, synced_state)
      [] cls = "holds" -> LibbyHoldsModel_sync(o, synced_state)
      [] cls = "cards" -> LibbyCardsModel_sync(o, synced_state)
      [] cls = "magazines" -> LibbyMagazinesModel_sync(o, synced_state)

set_filter(o, value) ==
    CASE cls = "loans" -> LibbyLoansModel_set_filter(o, value)
      [] cls = "holds" -> LibbyHoldsModel_set_filter(o, value)
      [] cls = "magazines" -> LibbyMagazinesModel_set_filter(o, value)

\* synced_state.get(key, []) for the keys the models read
SyncedState(cards, loans, holds, subscriptions) ==
    [cards |-> cards, libraries |-> <<>>, loans |-> loans, holds |-> holds,
     subscriptions |-> subscriptions]

\* `if not synced_state: synced_state = {}`
NoSyncedState == SyncedState(<<>>, <<>>, <<>>, <<>>)

\* the list the class keeps in _rows
SyncedRows(synced_state) ==
    CASE cls = "loans" -> synced_state.loans
      [] cls = "holds" -> synced_state.holds
      [] cls = "cards" -> synced_state.cards
      [] cls = "magazines" -> synced_state.subscriptions

\* The synced states handed to sync.  A list may hold a record that lacks a
\* key the code subscripts.
Loans == LoanUniverse \cup LoanLacking

Holds == HoldUniverse \cup HoldLacking

Cards == CardUniverse \cup CardLacking

Subscriptions == SubscriptionUniverse \cup SubscriptionLacking

SyncedStates ==
    CASE cls = "loans" ->
           {SyncedState(<<>>, l, <<>>, <<>>) : l \in SeqsUpTo(Loans, MaxRows)}
      [] cls = "holds" ->
           {SyncedState(<<>>, <<>>, h, <<>>) : h \in SeqsUpTo(Holds, MaxRows)}
      [] cls = "cards" ->
           {SyncedState(c, <<>>, <<>>, <<>>) : c \in SeqsUpTo(Cards, MaxRows)}
      [] cls = "magazines" ->
           {SyncedState(<<>>, l, <<>>, s) :
               l \in MagazineLoanLists, s \in SeqsUpTo(Subscriptions, MaxRows)}

\* The preferences the class's filter_rows reads; the others stay off.
PrefKeys ==
    CASE cls = "loans" -> {"HIDE_EBOOKS", "HIDE_MAGAZINES", "EXCLUDE_EMPTY_BOOKS"}
      [] cls = "holds" -> {"HIDE_EBOOKS", "HIDE_MAGAZINES"}
      [] cls = "cards" -> {}
      [] cls = "magazines" -> {"EXCLUDE_EMPTY_BOOKS"}

PrefValues(key) == IF key \in PrefKeys THEN BOOLEAN ELSE {FALSE}

NoSnap == [rows |-> <<>>, fresh |-> FALSE]

Apply(o) ==
    /\ _cards' = o._cards
    /\ _libraries' = o._libraries
    /\ _rows' = o._rows
    /\ filtered_rows' = o.filtered_rows
    /\ filter_hide' = o.filter_hide
    /\ _loans' = o._loans
    /\ err' = o.err
    /\ UNCHANGED <<cls, PREFS, db>>

\* __init__ of the four classes, with synced_state=None
Construct(hide) ==
    sync([_cards |-> <<>>, _libraries |-> <<>>, _rows |-> <<>>,
          filtered_rows |-> <<>>, filter_hide |-> hide, _loans |-> <<>>,
          err |-> "none"],
         NoSyncedState)

Init ==
    /\ cls \in Classes
    /\ PREFS \in [HIDE_EBOOKS : PrefValues("HIDE_EBOOKS"),
                  HIDE_MAGAZINES : PrefValues("HIDE_MAGAZINES"),
                  EXCLUDE_EMPTY_BOOKS : PrefValues("EXCLUDE_EMPTY_BOOKS"),
                  PREFER_OPEN_FORMATS : {TRUE}]
    /\ db \in CASE cls = "loans" -> Libraries(LoanBooks)
                [] cls = "magazines" -> Libraries(MagazineBooks)
                [] OTHER -> {<<>>}
    \* PREFS[HIDE_BOOKS_ALREADY_IN_LIB] / PREFS[HIDE_HOLDS_UNAVAILABLE]
    /\ \E hide \in (IF cls = "cards" THEN {FALSE} ELSE BOOLEAN) :
          LET o == Construct(hide)
          IN  /\ _cards = o._cards
              /\ _libraries = o._libraries
              /\ _rows = o._rows
              /\ filtered_rows = o.filtered_rows
              /\ filter_hide = o.filter_hide
              /\ _loans = o._loans
              /\ err = o.err
    /\ lastOp = "sync"
    /\ synced = [rows |-> <<>>, loans |-> <<>>]
    /\ edited = FALSE
    /\ toggle = "none"
    /\ snap = NoSnap
    /\ ret = "None"
    /\ removed = {}

\* the last call ran filter_rows and returned
Fresh ==
    /\ lastOp \in {"sync", "sync_subscriptions", "set_filter"}
    /\ err = "none"

\* the record as it was synced: filter_rows of the magazines model writes
\* the flag into the synced record itself
AsSynced(r) == IF cls = "magazines" THEN [r EXCEPT !.is_borrowed = FALSE] ELSE r

\* removed holds the records that the removeRows calls just made took out of
\* the view; any other call empties it
Pending == IF lastOp = "removeRows" THEN removed ELSE {}

\* model.sync(synced_state)
Sync(synced_state) ==
    LET o == sync(self, synced_state)
    IN  /\ Apply(o)
        /\ lastOp' = "sync"
        /\ synced' = [rows |-> IF o.err = "none" THEN SyncedRows(synced_state)
                                                  ELSE synced.rows,
                      loans |-> IF cls = "magazines" THEN synced_state.loans
                                                      ELSE <<>>]
        /\ edited' = (edited /\ o.err # "none")
        /\ removed' = {}
        /\ toggle' = "none"
        /\ snap' = NoSnap
        /\ ret' = "None"

\* magazines_model.sync_subscriptions(subscriptions)
SyncSubscriptions(subscriptions) ==
    /\ cls = "magazines"
    /\ LET o == LibbyMagazinesModel_sync_subscriptions(self, subscriptions)
       IN  /\ Apply(o)
           /\ edited' = (edited /\ o.err # "none")
           /\ synced' = [synced EXCEPT
                            !.rows = IF o.err = "none" THEN subscriptions ELSE @]
    /\ removed' = {}
    /\ ret' = "None"
    /\ lastOp' = "sync_subscriptions"
    /\ toggle' = "none"
    /\ snap' = NoSnap

\* model.set_filter_hide_...(value)
SetFilter(value) ==
    /\ cls \in {"loans", "holds", "magazines"}
    /\ LET o == set_filter(self, value)
       IN  /\ Apply(o)
           /\ edited' = (edited /\ (value = filter_hide \/ o.err # "none"))
    /\ removed' = {}
    /\ ret' = "None"
    /\ lastOp' = IF value # filter_hide THEN "set_filter" ELSE "set_filter_same"
    /\ IF value # filter_hide /\ ~value
       THEN /\ toggle' = "off"
            /\ snap' = [rows |-> filtered_rows,
                        fresh |-> /\ filter_rows(self).err = "none"
                                  /\ filter_rows(self).filtered_rows = filtered_rows]
       ELSE IF value # filter_hide /\ value /\ toggle = "off"
       THEN /\ toggle' = "offon"
            /\ snap' = snap
       ELSE /\ toggle' = "none"
            /\ snap' = NoSnap
    /\ UNCHANGED synced

\* model.removeRows(row, count, parent)
RemoveRows(row, count) ==
    /\ Apply(LibbyModel_removeRows(self, row, count))
    /\ ret' = LibbyModel_removeRows_return
    /\ lastOp' = "removeRows"
    /\ removed' = Pending \cup {AsSynced(filtered_rows[i + 1]) :
                                    i \in row..(row + count - 1)}
    /\ toggle' = "none"
    /\ snap' = NoSnap
    /\ UNCHANGED <<synced, edited>>

\* holds_model.setData(index, hold, role)
SetData(row, hold, role) ==
    /\ cls = "holds"
    /\ Apply(LibbyHoldsModel_setData(self, row, hold, role))
    /\ ret' = LibbyHoldsModel_setData_return(role)
    /\ lastOp' = "setData"
    /\ edited' = (edited \/ role = "EditRole")
    /\ toggle' = "none"
    /\ snap' = NoSnap
    /\ removed' = {}
    /\ UNCHANGED synced

\* the user changes a preference in the configuration dialog
PrefsChanged(key) ==
    /\ PREFS' = [PREFS EXCEPT ![key] = ~@]
    /\ lastOp' = "prefs"
    /\ toggle' = "none"
    /\ snap' = NoSnap
    /\ ret' = "None"
    /\ removed' = {}
    /\ UNCHANGED <<cls, db, _cards, _libraries, _rows, filtered_rows,
                   filter_hide, _loans, err, synced, edited>>

Rows == 0..(Len(filtered_rows) - 1)

Calls ==
    \/ \E value \in BOOLEAN : SetFilter(value)
    \/ \E row \in Rows : \E count \in 1..(Len(filtered_rows) - row) :
          RemoveRows(row, count)
    \/ \E row \in Rows : \E hold \in SetDataHolds :
          \E role \in {"EditRole", "DisplayRole"} : SetData(row, hold, role)
    \/ \E key \in PrefKeys : PrefsChanged(key)

Next ==
    \/ \E synced_state \in SyncedStates : Sync(synced_state)
    \/ \E subscriptions \in SeqsUpTo(Subscriptions, MaxRows) :
          SyncSubscriptions(subscriptions)
    \/ Calls

Spec == Init /\ [][Next]_vars

TypeOK ==
    /\ cls \in Classes
    /\ err \in {"none", "KeyError"}
    /\ toggle \in {"none", "off", "offon"}
    /\ ret \in {"None", "True"}

(***************************************************************************)
(* Properties                                                              *)
(***************************************************************************)
IsSubset == Range(filtered_rows) \subseteq Range(_rows)

\* C1: after any sequence of sync, sync_subscriptions, filter
\* setters, removeRows and setData calls, every record of filtered_rows is a
\* record of _rows.
C1_SubsetAlways == IsSubset

\* C2 (as stated): for loans and magazines, from any reachable state with the
\* hide-already-owned filter on, the setter called with False and then with
\* True leaves filtered_rows as it was before the two calls.
C2_ToggleRestores ==
    (cls \in {"loans", "magazines"} /\ toggle = "offon")
        => filtered_rows = snap.rows

\* C2 (amended): the same, from the states in which filtered_rows is what
\* filter_rows computes from the current records, library and preferences.
C2_ToggleRestoresFresh ==
    (cls \in {"loans", "magazines"} /\ toggle = "offon" /\ snap.fresh)
        => filtered_rows = snap.rows

\* the filter was switched off and on again over a view it had narrowed
C2_Witness ==
    /\ cls \in {"loans", "magazines"}
    /\ toggle = "offon"
    /\ snap.fresh
    /\ filtered_rows # <<>>
    /\ Len(filtered_rows) < Len(_rows)

WaitDays(h) ==
    IF Has(h, "estimatedWaitDays") THEN h.estimatedWaitDays ELSE DefaultWaitDays

SameAvailability(a, b) == a.isAvailable = b.isAvailable

\* the wait with a missing one taken as zero
WaitDaysOrZero(h) == IF Has(h, "estimatedWaitDays") THEN h.estimatedWaitDays ELSE 0

\* C3 (as stated): after LibbyHoldsModel.sync, for holds a before b in _rows:
\* a is available and b is not, or they are equally available and a has the
\* longer estimatedWaitDays, or equal on both and a has the later or equal
\* placedDate.  (A hold without estimatedWaitDays is read here as waiting zero
\* days, the reading under which the fewest pairs are out of order.)
C3_LongerWaitFirst ==
    (cls = "holds" /\ lastOp = "sync") =>
        \A i, j \in 1..Len(_rows) : i < j =>
            LET a == _rows[i]
                b == _rows[j]
            IN  \/ a.isAvailable /\ ~b.isAvailable
                \/ SameAvailability(a, b) /\ WaitDaysOrZero(a) > WaitDaysOrZero(b)
                \/ /\ SameAvailability(a, b)
                   /\ WaitDaysOrZero(a) = WaitDaysOrZero(b)
                   /\ a.placedDate >= b.placedDate

\* C3 (amended): ... or they are equally available and a has the shorter
\* estimatedWaitDays (a hold without one counting as 9999 days), or equal on
\* both and a has the later or equal placedDate.
C3_ShorterWaitFirst ==
    (cls = "holds" /\ lastOp = "sync") =>
        \A i, j \in 1..Len(_rows) : i < j =>
            LET a == _rows[i]
                b == _rows[j]
            IN  \/ a.isAvailable /\ ~b.isAvailable
                \/ SameAvailability(a, b) /\ WaitDays(a) < WaitDays(b)
                \/ /\ SameAvailability(a, b)
                   /\ WaitDays(a) = WaitDays(b)
                   /\ a.placedDate >= b.placedDate

\* two equally available holds with different waits were synced
C3_Witness ==
    /\ cls = "holds"
    /\ lastOp = "sync"
    /\ Len(_rows) = 2
    /\ SameAvailability(_rows[1], _rows[2])
    /\ WaitDays(_rows[1]) # WaitDays(_rows[2])
    /\ _rows # synced.rows

\* the library book's title is the record's title, or its title with
\* subtitle, up to case
TitleEqual(book, r) ==
    icu_lower(book.title) \in {icu_lower(get_media_title(r, FALSE, FALSE)),
                               icu_lower(get_media_title(r, FALSE, TRUE))}

\* the same against the record's titles without surrounding blanks
TitleEqualStripped(book, r) ==
    icu_lower(book.title) \in {icu_lower(strip(get_media_title(r, FALSE, FALSE))),
                               icu_lower(strip(get_media_title(r, FALSE, TRUE)))}

IdentifierEqual(book, loan) ==
    \/ loan.isbn # "" /\ loan.isbn = book.identifiers.isbn
    \/ loan.asin # "" /\ loan.asin \in {book.identifiers.amazon,
                                        book.identifiers.asin}

Matches(book, r) ==
    \/ TitleEqualStripped(book, r)
    \/ cls = "loans" /\ IdentifierEqual(book, r)

\* book k is the first of the library, in iteration order, to match r
FirstMatch(k, r) ==
    /\ k \in 1..Len(db)
    /\ Matches(db[k], r)
    /\ \A j \in 1..(k - 1) : ~Matches(db[j], r)

Counts(book) == book.formats # {} \/ ~PREFS.EXCLUDE_EMPTY_BOOKS

\* C4 (as stated): in LibbyLoansModel with the ownership filter on, a loan is
\* not in filtered_rows after filter_rows if some library book's title equals
\* its title or title-with-subtitle up to case and that book has a format or
\* EXCLUDE_EMPTY_BOOKS is off.
C4_SomeBookHides ==
    (cls = "loans" /\ filter_hide /\ Fresh) =>
        \A i \in 1..Len(_rows) :
            (\E k \in 1..Len(db) : TitleEqual(db[k], _rows[i]) /\ Counts(db[k]))
                => _rows[i] \notin Range(filtered_rows)

\* C4 (amended): ... a loan is not in filtered_rows after filter_rows if the
\* first library book, in iteration order, that matches it (its title equal up
\* to case to the loan's title or title-with-subtitle stripped of surrounding
\* blanks, or its isbn/amazon/asin identifier equal to the loan's ISBN/ASIN)
\* has a format or EXCLUDE_EMPTY_BOOKS is off.
C4_FirstBookHides ==
    (cls = "loans" /\ filter_hide /\ Fresh) =>
        \A i \in 1..Len(_rows) :
            (\E k \in 1..Len(db) : FirstMatch(k, _rows[i]) /\ Counts(db[k]))
                => _rows[i] \notin Range(filtered_rows)

\* a loan shown without the filter is hidden by a library title in another case
C4_Witness ==
    /\ cls = "loans"
    /\ filter_hide
    /\ lastOp = "set_filter"
    /\ \E i \in 1..Len(_rows) :
          /\ _rows[i] \notin Range(filtered_rows)
          /\ loan_appended([self EXCEPT !.filter_hide = FALSE], _rows[i])
          /\ \E k \in 1..Len(db) :
                /\ FirstMatch(k, _rows[i])
                /\ db[k].title # get_media_title(_rows[i], FALSE, FALSE)
                /\ TitleEqual(db[k], _rows[i])

AllAvailable == \A i \in 1..Len(filtered_rows) : filtered_rows[i].isAvailable

\* C5 (as stated): in LibbyHoldsModel, in every state reachable by sync,
\* set_filter_hide_unavailable_holds and setData in which the filter is on,
\* every hold in filtered_rows is available.
C5_OnlyAvailable == (cls = "holds" /\ filter_hide) => AllAvailable

\* C5 (amended): ... in which the filter is on and no setData has replaced a
\* row since filter_rows last ran, every hold in filtered_rows is available.
C5_OnlyAvailableUnlessEdited ==
    (cls = "holds" /\ filter_hide /\ ~edited) => AllAvailable

\* the filter is on and has kept an unavailable hold out of the view
C5_Witness ==
    /\ cls = "holds"
    /\ filter_hide
    /\ ~edited
    /\ filtered_rows # <<>>
    /\ \E i \in 1..Len(_rows) : hold_downloadable(_rows[i]) /\ ~_rows[i].isAvailable

\* C6: a record for which get_loan_format raises ValueError is never in the
\* filtered view of the loans or holds model after filter_rows, and filter_rows
\* completes without propagating the error.
C6_FormatFailureExcluded ==
    (cls \in {"loans", "holds"} /\ Fresh) =>
        /\ err # "ValueError"
        /\ \A i \in 1..Len(filtered_rows) :
              get_loan_format(filtered_rows[i], PREFS.PREFER_OPEN_FORMATS)
                  # "ValueError"

\* C7: sync followed by filter_rows completes without an error for every
\* synced record that lacks a per-record field (checkoutDate, isAvailable,
\* estimatedWaitDays, placedDate, createDate, estimatedReleaseDate).
C7_SyncToleratesMissing ==
    lastOp \in {"sync", "sync_subscriptions"} => err = "none"

SameRecords(s, t) ==
    /\ Len(s) = Len(t)
    /\ {AsSynced(s[i]) : i \in 1..Len(s)} = {AsSynced(t[i]) : i \in 1..Len(t)}

Visible(r) ==
    \/ r.dlEbook /\ ~PREFS.HIDE_EBOOKS
    \/ r.dlMagazine /\ ~PREFS.HIDE_MAGAZINES

\* the library owns r: its first matching book counts
Owned(r) == \E k \in 1..Len(db) : FirstMatch(k, r) /\ Counts(db[k])

\* the inclusion predicate of the object's class under the current toggles
Included(r) ==
    CASE cls = "loans" ->
           /\ Visible(r)
           /\ r.loan_format # "ValueError"
           /\ (filter_hide => ~Owned(r))
      [] cls = "holds" -> Visible(r) /\ (filter_hide => r.isAvailable)
      [] cls = "cards" -> TRUE
      [] cls = "magazines" -> filter_hide => ~Owned(r)

\* the sort order of the class: may a stand before b by its key?
InOrder(a, b) ==
    CASE cls = "loans" -> a.checkoutDate >= b.checkoutDate
      [] cls = "holds" ->
           \/ a.isAvailable /\ ~b.isAvailable
           \/ SameAvailability(a, b) /\ WaitDays(a) < WaitDays(b)
           \/ /\ SameAvailability(a, b)
              /\ WaitDays(a) = WaitDays(b)
              /\ a.placedDate >= b.placedDate
      [] cls = "cards" -> a.createDate <= b.createDate
      [] cls = "magazines" -> a.estimatedReleaseDate >= b.estimatedReleaseDate

Pos(r, s) == CHOOSE i \in 1..Len(s) : s[i] = r

\* a stands before b in the sorted _rows (equal keys keep the order of _rows)
Precedes(a, b) ==
    IF InOrder(a, b) /\ InOrder(b, a) THEN Pos(a, _rows) < Pos(b, _rows)
    ELSE InOrder(a, b)

Scanned(r) ==
    cls = "magazines" \/ (Visible(r) /\ r.loan_format # "ValueError")

\* C9: with the ownership filter on, whether a loan or subscription is hidden
\* is decided by the first library book, in iteration order, that matches it
\* (by title; for loans also by ISBN/ASIN) and by no later book; with no
\* matching book it is shown.
C9_FirstMatchDecides ==
    (cls \in {"loans", "magazines"} /\ filter_hide /\ Fresh) =>
        \A i \in 1..Len(_rows) :
            LET r == _rows[i]
                hidden == r \notin Range(filtered_rows)
            IN  Scanned(r) =>
                  /\ \A k \in 1..Len(db) :
                        FirstMatch(k, r) => (hidden <=> Counts(db[k]))
                  /\ (\A k \in 1..Len(db) : ~Matches(db[k], r)) => ~hidden

\* a record is shown because its first match is an empty book, although a
\* later book that matches it has a format
C9_Witness ==
    /\ cls \in {"loans", "magazines"}
    /\ filter_hide
    /\ Fresh
    /\ \E i \in 1..Len(filtered_rows) : \E k, j \in 1..Len(db) :
          /\ FirstMatch(k, filtered_rows[i])
          /\ ~Counts(db[k])
          /\ k < j
          /\ Matches(db[j], filtered_rows[i])
          /\ Counts(db[j])

\* C10: in LibbyMagazinesModel, after any sequence of sync and
\* sync_subscriptions calls, a subscription in filtered_rows has __is_borrowed
\* true iff the loans of the most recent sync contain a loan with its id.
C10_BorrowedAgainstLastSync ==
    cls = "magazines" =>
        \A i \in 1..Len(filtered_rows) :
            filtered_rows[i].is_borrowed
                <=> \E n \in 1..Len(synced.loans) :
                       synced.loans[n].id = filtered_rows[i].id

\* sync_subscriptions has flagged a subscription against the loans kept from
\* the sync before it, and left another unflagged
C10_Witness ==
    /\ cls = "magazines"
    /\ lastOp = "sync_subscriptions"
    /\ \E i, j \in 1..Len(filtered_rows) :
          filtered_rows[i].is_borrowed /\ ~filtered_rows[j].is_borrowed

\* C11: LibbyHoldsModel.setData with the edit role replaces exactly the entry
\* of filtered_rows at the given row with the given hold and returns True; the
\* number of rows, every other entry, _rows and the filter toggle are
\* unchanged.  With any other role nothing is changed.
C11_SetDataReplacesOneRow ==
    [][\A row \in Rows : \A hold \in SetDataHolds :
          \A role \in {"EditRole", "DisplayRole"} :
             SetData(row, hold, role) =>
                IF role = "EditRole"
                THEN /\ ret' = "True"
                     /\ Len(filtered_rows') = Len(filtered_rows)
                     /\ filtered_rows'[row + 1] = hold
                     /\ \A i \in 1..Len(filtered_rows) :
                           i # row + 1 => filtered_rows'[i] = filtered_rows[i]
                     /\ UNCHANGED <<_rows, filter_hide>>
                ELSE UNCHANGED <<_cards, _libraries, _rows, filtered_rows,
                                 filter_hide, _loans, PREFS, db>>]_vars

\* setData has put a hold that _rows does not have into one of two rows
C11_Witness ==
    /\ lastOp = "setData"
    /\ ret = "True"
    /\ Len(filtered_rows) = 2
    /\ \E i, j \in 1..2 :
          /\ filtered_rows[i] \in SetDataHolds \ Range(_rows)
          /\ filtered_rows[j] \in Range(_rows)

\* r is one of the records of s (a subscription whatever its flag)
InSeq(r, s) == \E i \in 1..Len(s) : AsSynced(s[i]) = AsSynced(r)

\* removeRows(row, count) with 0 <= row and row + count <= rowCount removes
\* the count entries from row on, keeps the others in order, returns True and
\* leaves _rows and the toggles alone
RemoveRowsFrame ==
    \A row \in Rows : \A count \in 1..(Len(filtered_rows) - row) :
        RemoveRows(row, count) =>
            /\ ret' = "True"
            /\ Len(filtered_rows') = Len(filtered_rows) - count
            /\ \A i \in 1..Len(filtered_rows') :
                  filtered_rows'[i] =
                      filtered_rows[IF i <= row THEN i ELSE i + count]
            /\ UNCHANGED <<_rows, filter_hide, PREFS>>

\* filter_rows runs, and returns, in the call made right after removeRows
Recomputes ==
    /\ lastOp = "removeRows"
    /\ lastOp' \in {"sync", "sync_subscriptions", "set_filter"}
    /\ err' = "none"

\* C12 (as stated): removeRows removes exactly the count entries from row on,
\* keeps the rest in order and leaves _rows and the toggles unchanged, so the
\* removed records are in the view again after the next filter_rows unless a
\* sync has dropped them from _rows.
C12_RemovedComeBack ==
    [][/\ RemoveRowsFrame
       /\ Recomputes =>
             \A r \in removed : InSeq(r, _rows') => InSeq(r, filtered_rows')]_vars

\* C12 (amended): ... so after the next filter_rows a removed record is in the
\* view again if it is still in _rows and the inclusion predicate, under the
\* toggles and preferences of that moment, admits it: whenever filter_rows
\* has just run, the view has every record of _rows that the predicate admits.
C12_RemovedComeBackIfIncluded ==
    /\ [][/\ RemoveRowsFrame
          /\ Recomputes =>
                \A r \in removed :
                    (InSeq(r, _rows') /\ Included(r)') => InSeq(r, filtered_rows')]_vars
    /\ [](Fresh => \A r \in Range(_rows) : Included(r) => InSeq(r, filtered_rows))

\* removeRows has taken out one of two rows, a record that the next
\* filter_rows would bring back
C12_Witness ==
    /\ lastOp = "removeRows"
    /\ ret = "True"
    /\ Len(filtered_rows) = 1
    /\ \E r \in removed : InSeq(r, _rows) /\ Included(r)
====
